---- MODULE Spec2Model ----
(***************************************************************************)
(* The chat service of src/Server: the Session Registry                    *)
(* (ConnectionService), the Socket.IO / REST / raw WebSocket ingress       *)
(* handlers, MessageService, BroadcastService and the Celery tasks         *)
(* process_message_async, whisper_audio_async and generate_image_async.    *)
(*                                                                         *)
(* Strings are sequences of character tokens.  A Python dict is a function *)
(* from the keys it holds; None and a missing key are both read with a     *)
(* default, as dict.get does.  Every effect that leaves a handler or a     *)
(* task (an emit, a publish, an enqueue call, a return) is recorded, in    *)
(* the order the code performs it, in the log of that call or job.         *)
(***************************************************************************)
EXTENDS Integers, Sequences, FiniteSets, TLC

VARIABLES
    active_connections,  \* ConnectionService._active_connections
    sio_sessions,        \* sids the Socket.IO server holds (one room per sid)
    raw_ws_connections,  \* keys of ws_routes.raw_ws_connections
    used_ids,            \* ids handed out so far: sids and uuids are fresh
    last_op,             \* history: the last registry call made on each id
    queue,               \* the broker's work queue: [jid, task, payload]
    running,             \* whisper runs that wrote temp.wav and are transcribing
    temp_wav,            \* the file "temp.wav" of the worker's directory
    next_msg,            \* ids Message.create has generated so far
    next_job,            \* job ids handed out by the broker so far
    n_calls,             \* ingress calls served so far
    sender_of,           \* history: message id -> sid whose handler accepted it
    call_log,            \* history: per ingress call, its effects in order
    job_log,             \* history: per job id, the effects of its run in order
    conn_log,            \* history: the 'connected' events emitted
    clock,               \* datetime.utcnow() in milliseconds
    created              \* history: the uuid, the time and the id of each
                         \* Message.create call

vars == <<active_connections, sio_sessions, raw_ws_connections, used_ids, last_op,
          queue, running, temp_wav, next_msg, next_job, n_calls,
          sender_of, call_log, job_log, conn_log, clock, created>>

----------------------------------------------------------------------------
(* Bounds of the model *)

MaxCalls == 1

MaxWorkers == 2

(* Socket.IO session ids (request.sid) and raw WebSocket connection ids *)
Sids == {"s1", "s2"}

RawIds == {"r1"}

Ids == Sids \cup RawIds

----------------------------------------------------------------------------
(* Strings *)

WS == {" ", "\n"}

Truthy(s) == s # <<>>

RECURSIVE lstrip(_)
lstrip(s) ==
    IF s # <<>> /\ Head(s) \in WS THEN lstrip(Tail(s)) ELSE s

(* base64.b64decode: "A1", "A2" stand for well-formed base64 text of two   *)
(* audio clips; any other character leaves the padding incorrect.          *)
B64Blocks == {"A1", "A2"}

b64decode(s) ==
    IF \A i \in 1..Len(s) : s[i] \in B64Blocks
    THEN [ok |-> TRUE, bytes |-> s]
    ELSE [ok |-> FALSE, bytes |-> <<>>]

(* model.transcribe: the segments recognised in a file, each with its text; *)
(* a file that is no audio makes the model raise.                           *)
transcribe(bytes) ==
    IF bytes = <<"A1">> THEN [ok |-> TRUE, segments |-> << <<" ", "h", "i">> >>]
    ELSE IF bytes = <<"A2">>
         THEN [ok |-> TRUE, segments |-> << <<" ", "y", "o">>, <<"o", "k">> >>]
         ELSE [ok |-> FALSE, segments |-> <<>>]

----------------------------------------------------------------------------
(* Python dicts *)

Get(d, k, dflt) == IF k \in DOMAIN d THEN d[k] ELSE dflt

Put(d, k, v) == [x \in DOMAIN d \cup {k} |-> IF x = k THEN v ELSE d[x]]

NoMsg == [id |-> 0, type |-> "", content |-> <<>>]

NoPayload == [id |-> 0, type |-> "", content |-> <<>>, sid |-> ""]

----------------------------------------------------------------------------
(* JSON text. A text is a sequence of tokens: the punctuation, the literals *)
(* 7 and null, and quoted strings. json.loads skips the whitespace between *)
(* tokens and gives back an object (a dict of its members), or a value that *)
(* is no object (a number, a list, a str, None); any other text makes it   *)
(* raise JSONDecodeError.                                                  *)

JsonQuoted == {"\"text\"", "\"k\"", "\"p\""}

unquote(t) ==
    CASE t = "\"text\"" -> "text"
      [] t = "\"k\"" -> "k"
      [] t = "\"p\"" -> "p"

json_loads(s) ==
    LET t == SelectSeq(s, LAMBDA x : x \notin WS)
    IN  IF t = << "{", "}" >>
        THEN [ok |-> TRUE, kind |-> "object", obj |-> <<>>]
        ELSE IF /\ Len(t) = 5
                /\ t[1] = "{" /\ t[2] \in JsonQuoted /\ t[3] = ":"
                /\ t[4] \in JsonQuoted /\ t[5] = "}"
        THEN [ok |-> TRUE, kind |-> "object",
              obj |-> (unquote(t[2]) :> << unquote(t[4]) >>)]
        ELSE IF t = << "7" >>
        THEN [ok |-> TRUE, kind |-> "number", obj |-> <<>>]
        ELSE IF t = << "null" >>
        THEN [ok |-> TRUE, kind |-> "null", obj |-> <<>>]
        ELSE IF t = << "[", "]" >>
        THEN [ok |-> TRUE, kind |-> "list", obj |-> <<>>]
        ELSE IF Len(t) = 1 /\ t[1] \in JsonQuoted
        THEN [ok |-> TRUE, kind |-> "string", obj |-> <<>>]
        ELSE [ok |-> FALSE, kind |-> "", obj |-> <<>>]

(* The prompts of this model that are JSON text *)
EnvelopeWithText == << "{", "\"text\"", ":", "\"p\"", "}" >>

EnvelopeWithoutText == << "{", "\"k\"", ":", "\"p\"", "}" >>

JsonNumber == << "7" >>

JsonNull == << "null" >>

----------------------------------------------------------------------------
(* Raw inputs of the ingress paths: a JSON object, no body (None), or a    *)
(* JSON value that is no object (a non-empty string or list).             *)

Obj(d) == [kind |-> "dict", d |-> d]

NoBody == [kind |-> "none", d |-> <<>>]

NonObject == [kind |-> "nondict", d |-> <<>>]

Inputs ==
    << Obj([type |-> "text", content |-> <<"a">>]),
       Obj([type |-> "audio", content |-> <<"A1">>]),
       Obj([type |-> "audio", content |-> <<"A2">>]),
       Obj([type |-> "audio", content |-> <<"a">>]),
       Obj([type |-> "text", content |-> EnvelopeWithText]),
       Obj([type |-> "text", content |-> EnvelopeWithoutText]),
       Obj([type |-> "text", content |-> JsonNumber]),
       Obj([type |-> "text", content |-> JsonNull]),
       Obj([type |-> "image", content |-> <<"a">>]),
       Obj([content |-> <<"a">>]),
       Obj([type |-> "text", text |-> <<"a">>]),
       Obj([type |-> "text", content |-> <<>>]),
       Obj([type |-> "text"]),
       Obj([type |-> "video", content |-> <<"a">>]),
       Obj(<<>>),
       NoBody,
       NonObject >>

----------------------------------------------------------------------------
(* MessageService *)

MessageTypes == {"text", "image", "audio"}

(* validate_message without the check of the type *)
validate_message_any_type(data) ==
    IF data.kind = "none" \/ (data.kind = "dict" /\ DOMAIN data.d = {})
    THEN [ok |-> FALSE, reason |-> "No data provided", raised |-> FALSE]
    ELSE IF data.kind # "dict"
    THEN [ok |-> FALSE, reason |-> "AttributeError", raised |-> TRUE]
    ELSE IF ~Truthy(Get(data.d, "content", <<>>))
    THEN [ok |-> FALSE, reason |-> "Content is required", raised |-> FALSE]
    ELSE [ok |-> TRUE, reason |-> "", raised |-> FALSE]

(* validate_message(data) -> (ok, reason); raised: data.get on a non-dict *)
validate_message(data) ==
    IF data.kind = "none" \/ (data.kind = "dict" /\ DOMAIN data.d = {})
    THEN [ok |-> FALSE, reason |-> "No data provided", raised |-> FALSE]
    ELSE IF data.kind # "dict"
    THEN [ok |-> FALSE, reason |-> "AttributeError", raised |-> TRUE]
    ELSE IF ~Truthy(Get(data.d, "content", <<>>))
    THEN [ok |-> FALSE, reason |-> "Content is required", raised |-> FALSE]
    ELSE IF Get(data.d, "type", "text") \notin MessageTypes
    THEN [ok |-> FALSE, reason |-> "Invalid message type", raised |-> FALSE]
    ELSE [ok |-> TRUE, reason |-> "", raised |-> FALSE]

(* normalize_message_data(data): None is not iterable, so it raises there *)
normalize_message_data(data) ==
    IF data.kind = "none"
    THEN [raised |-> TRUE, data |-> data]
    ELSE IF data.kind = "dict"
            /\ ~Truthy(Get(data.d, "content", <<>>))
            /\ Truthy(Get(data.d, "text", <<>>))
    THEN [raised |-> FALSE, data |-> Obj(Put(data.d, "content", data.d["text"]))]
    ELSE [raised |-> FALSE, data |-> data]

(* Message.create and to_dict, with the id Message.create generated *)
create_message(id, message_type, content) ==
    [id |-> id, type |-> message_type, content |-> content]

(* socketio.emit: the sessions an emit reaches.  No room: every Socket.IO  *)
(* session; room=sid: the one session of that room; skip_sid is left out.  *)
Recipients(room, skip) ==
    IF room = "" THEN sio_sessions \ {skip}
    ELSE (sio_sessions \cap {room}) \ {skip}

(* Log entries *)
EmitE(fn, c, j, event, room, skip, m, info) ==
    [kind |-> "emit", fn |-> fn, call |-> c, job |-> j, event |-> event,
     room |-> room, skip |-> skip, to |-> Recipients(room, skip),
     reg |-> active_connections, msg |-> m, info |-> info, n |-> 0]

PubE(fn, c, j, topic, m) ==
    [kind |-> "publish", fn |-> fn, call |-> c, job |-> j, topic |-> topic,
     msg |-> m]

EnqE(fn, c, j, task, payload, ok) ==
    [kind |-> "enqueue", fn |-> fn, call |-> c, job |-> j, task |-> task,
     payload |-> payload, ok |-> ok]

RetE(fn, c, j, result, error, payload) ==
    [kind |-> "return", fn |-> fn, call |-> c, job |-> j, result |-> result,
     error |-> error, payload |-> payload]

RaiseE(fn, c, j, payload) ==
    [kind |-> "raise", fn |-> fn, call |-> c, job |-> j, payload |-> payload]

InputE(fn, c, data) ==
    [kind |-> "input", fn |-> fn, call |-> c, job |-> 0, input |-> data]

RespE(fn, c, status, error) ==
    [kind |-> "response", fn |-> fn, call |-> c, job |-> 0, status |-> status,
     error |-> error]

CallE(fn, c, j, what, data) ==
    [kind |-> "call", fn |-> fn, call |-> c, job |-> j, what |-> what,
     data |-> data]

(* MessageService.send_to_sender: an emit to the sender's room; a failure  *)
(* of the emit is caught and logged there.                                 *)
send_to_sender(c, message, sid, emitOk) ==
    IF emitOk
    THEN << EmitE("send_to_sender", c, 0, "message", sid, "", message, "") >>
    ELSE <<>>

(* broadcast_message with an except clause that logs and does not raise *)
broadcast_message_swallowing(c, message, include_sender, skip_sid, emitOk, pubOk) ==
    LET skip == IF include_sender THEN "" ELSE skip_sid
        e1 == << CallE("broadcast_message", c, 0, "start", skip),
                 EmitE("broadcast_message", c, 0, "message", "", skip, message, "") >>
        e2 == << PubE("broadcast_message", c, 0, "messages", message) >>
    IN  IF ~emitOk THEN [raised |-> FALSE, entries |-> <<e1[1]>>]
        ELSE IF ~pubOk THEN [raised |-> FALSE, entries |-> e1]
        ELSE [raised |-> FALSE, entries |-> e1 \o e2]

(* MessageService.broadcast_message: the emit, then the publish; a failure *)
(* of either is logged and raised again.                                   *)
broadcast_message(c, message, include_sender, skip_sid, emitOk, pubOk) ==
    LET skip == IF include_sender THEN "" ELSE skip_sid
        e1 == << CallE("broadcast_message", c, 0, "start", skip),
                 EmitE("broadcast_message", c, 0, "message", "", skip, message, "") >>
        e2 == << PubE("broadcast_message", c, 0, "messages", message) >>
    IN  IF ~emitOk THEN [raised |-> TRUE, entries |-> <<e1[1]>>]
        ELSE IF ~pubOk THEN [raised |-> TRUE, entries |-> e1]
        ELSE [raised |-> FALSE, entries |-> e1 \o e2]

(* job_payload without message_dict['sid'] = sender_sid *)
job_payload_without_sid(message, sender_sid) ==
    [id |-> message.id, type |-> message.type, content |-> message.content,
     sid |-> ""]

(* The payload process_incoming_message hands to send_task: the message    *)
(* dict with the sender's sid added under 'sid'.                           *)
job_payload(message, sender_sid) ==
    [id |-> message.id, type |-> message.type, content |-> message.content,
     sid |-> sender_sid]

InternalError == "Internal server error"

(* MessageService.process_incoming_message.  env: whether the confirmation *)
(* emit, the broadcast emit, the publish and the broker accept.            *)
process_incoming_message(c, data, sender_sid, send_confirmation, broadcast_to_others, queue_async_task, env) ==
    LET fn == "process_incoming_message"
        norm == normalize_message_data(data)
        v == validate_message(norm.data)
        d == norm.data.d
        message == create_message(next_msg + 1, Get(d, "type", "text"),
                                  Get(d, "content", <<>>))
        conf == IF send_confirmation
                THEN send_to_sender(c, message, sender_sid, env.confOk)
                ELSE <<>>
        bc == IF broadcast_to_others
              THEN broadcast_message(c, message, FALSE, sender_sid,
                                     env.emitOk, env.pubOk)
              ELSE [raised |-> FALSE, entries |-> <<>>]
        payload == job_payload(message, sender_sid)
        enq == IF queue_async_task
               THEN << EnqE(fn, c, 0, "process_message_async", payload,
                            env.brokerOk) >>
               ELSE <<>>
        none == [entries |-> <<>>, jobs |-> {}, message |-> NoMsg,
                 accepted |-> FALSE, created |-> FALSE, error |-> ""]
    IN  IF norm.raised \/ v.raised
        THEN [none EXCEPT !.entries = << RetE(fn, c, 0, FALSE, InternalError, NoPayload) >>,
                          !.error = InternalError]
        ELSE IF ~v.ok
        THEN [none EXCEPT !.entries = << RetE(fn, c, 0, FALSE, v.reason, NoPayload) >>,
                          !.error = v.reason]
        ELSE IF bc.raised
        THEN [none EXCEPT !.entries = conf \o bc.entries
                              \o << RetE(fn, c, 0, FALSE, InternalError, NoPayload) >>,
                          !.created = TRUE, !.message = message,
                          !.error = InternalError]
        ELSE [entries |-> conf \o bc.entries \o enq
                              \o << RetE(fn, c, 0, TRUE, "", payload) >>,
              jobs |-> IF queue_async_task /\ env.brokerOk
                       THEN {[jid |-> next_job + 1,
                              task |-> "process_message_async",
                              payload |-> payload]}
                       ELSE {},
              message |-> message, accepted |-> TRUE, created |-> TRUE,
              error |-> ""]

(* BroadcastService.broadcast_system_message *)
broadcast_system_message(c, message, emitOk, pubOk) ==
    LET e1 == << CallE("broadcast_system_message", c, 0, "start", ""),
                 EmitE("broadcast_system_message", c, 0, "broadcast", "", "",
                       message, "") >>
        e2 == << PubE("broadcast_system_message", c, 0, "broadcasts", message) >>
    IN  IF ~emitOk THEN [raised |-> TRUE, entries |-> <<e1[1]>>]
        ELSE IF ~pubOk THEN [raised |-> TRUE, entries |-> e1]
        ELSE [raised |-> FALSE, entries |-> e1 \o e2]

----------------------------------------------------------------------------
(* ConnectionService *)

(* add_connection storing a new set in place of the old one *)
add_connection_replacing(conns, sid) == {sid}

add_connection(conns, sid) == conns \cup {sid}

remove_connection(conns, sid) == conns \ {sid}

get_connection_count(conns) == Cardinality(conns)

is_connected(conns, sid) == sid \in conns

----------------------------------------------------------------------------
(* The job log after n more jobs were accepted by the broker, and after    *)
(* job jid performed the given effects.                                    *)
Enqueued(jl, n) == jl \o [k \in 1..n |-> <<>>]

Ran(jl, jid, entries) == [jl EXCEPT ![jid] = @ \o entries]

Init ==
    /\ active_connections = {}
    /\ sio_sessions = {}
    /\ raw_ws_connections = {}
    /\ used_ids = {}
    /\ last_op = [i \in Ids |-> "none"]
    /\ queue = {}
    /\ running = {}
    /\ temp_wav = [exists |-> FALSE, bytes |-> <<>>]
    /\ next_msg = 0
    /\ next_job = 0
    /\ n_calls = 0
    /\ sender_of = <<>>
    /\ call_log = <<>>
    /\ job_log = <<>>
    /\ conn_log = {}
    /\ clock = 0
    /\ created = <<>>

(* handle_connect emitting 'connected' before add_connection *)
handle_connect_emit_first(sid) ==
    /\ sid \in Sids \ used_ids
    /\ used_ids' = used_ids \cup {sid}
    /\ sio_sessions' = sio_sessions \cup {sid}
    /\ active_connections' = add_connection(active_connections, sid)
    /\ last_op' = [last_op EXCEPT ![sid] = "add"]
    /\ conn_log' = conn_log \cup
          {[EmitE("handle_connect", 0, 0, "connected", sid, "", NoMsg, sid)
             EXCEPT !.to = {sid}, !.reg = active_connections,
                    !.n = get_connection_count(active_connections)]}
    /\ UNCHANGED <<raw_ws_connections, queue, running, temp_wav, next_msg,
                   next_job, n_calls, sender_of, call_log, job_log>>
    /\ UNCHANGED <<clock, created>>

(* Socket.IO connect: the server takes the session in, then handle_connect *)
(* registers it and emits 'connected' to it.                               *)
handle_connect(sid) ==
    /\ sid \in Sids \ used_ids
    /\ used_ids' = used_ids \cup {sid}
    /\ sio_sessions' = sio_sessions \cup {sid}
    /\ active_connections' = add_connection(active_connections, sid)
    /\ last_op' = [last_op EXCEPT ![sid] = "add"]
    /\ conn_log' = conn_log \cup
          {[EmitE("handle_connect", 0, 0, "connected", sid, "", NoMsg, sid)
             EXCEPT !.to = {sid}, !.reg = active_connections',
                    !.n = get_connection_count(active_connections')]}
    /\ UNCHANGED <<raw_ws_connections, queue, running, temp_wav, next_msg,
                   next_job, n_calls, sender_of, call_log, job_log>>
    /\ UNCHANGED <<clock, created>>

(* Socket.IO disconnect: handle_disconnect, then the server drops the sid  *)
handle_disconnect(sid) ==
    /\ sid \in sio_sessions
    /\ active_connections' = remove_connection(active_connections, sid)
    /\ last_op' = [last_op EXCEPT ![sid] = "remove"]
    /\ sio_sessions' = sio_sessions \ {sid}
    /\ UNCHANGED <<raw_ws_connections, used_ids, queue, running, temp_wav,
                   next_msg, next_job, n_calls, sender_of, call_log,
                   job_log, conn_log>>
    /\ UNCHANGED <<clock, created>>

(* handle_message emitting 'error' through socketio.emit with no room *)
handle_message_error_to_all(sid, data, brokerOk) ==
    /\ sid \in sio_sessions
    /\ n_calls < MaxCalls
    /\ n_calls' = n_calls + 1
    /\ LET c == n_calls + 1
           fn == "handle_message"
           r == process_incoming_message(c, Obj(Put(data.d, "sid", sid)), sid,
                    FALSE, FALSE, TRUE,
                    [confOk |-> TRUE, emitOk |-> TRUE, pubOk |-> TRUE,
                     brokerOk |-> brokerOk])
       IN  IF data.kind # "dict"
           THEN /\ call_log' = Append(call_log, << InputE(fn, c, data) >> \o
                     << CallE(fn, c, 0, "message", sid),
                        EmitE(fn, c, 0, "error", "", "", NoMsg, "Invalid message format") >>)
                /\ UNCHANGED <<queue, next_msg, next_job, sender_of, job_log>>
           ELSE /\ call_log' = Append(call_log, << InputE(fn, c, data) >> \o
                     << CallE(fn, c, 0, "message", sid) >> \o r.entries
                     \o (IF r.error # ""
                         THEN << EmitE(fn, c, 0, "error", "", "", NoMsg, r.error) >>
                         ELSE <<>>))
                /\ queue' = queue \cup r.jobs
                /\ next_job' = next_job + Cardinality(r.jobs)
                /\ job_log' = Enqueued(job_log, Cardinality(r.jobs))
                /\ next_msg' = IF r.created THEN next_msg + 1 ELSE next_msg
                /\ sender_of' = IF r.created THEN Append(sender_of, sid)
                                ELSE sender_of
    /\ UNCHANGED <<active_connections, sio_sessions, raw_ws_connections,
                   used_ids, last_op, running, temp_wav, conn_log>>
    /\ UNCHANGED <<clock, created>>

(* Socket.IO 'message' event from a connected session *)
handle_message(sid, data, brokerOk) ==
    /\ sid \in sio_sessions
    /\ n_calls < MaxCalls
    /\ n_calls' = n_calls + 1
    /\ LET c == n_calls + 1
           fn == "handle_message"
           r == process_incoming_message(c, Obj(Put(data.d, "sid", sid)), sid,
                    FALSE, FALSE, TRUE,
                    [confOk |-> TRUE, emitOk |-> TRUE, pubOk |-> TRUE,
                     brokerOk |-> brokerOk])
       IN  IF data.kind # "dict"
           THEN /\ call_log' = Append(call_log, << InputE(fn, c, data) >> \o
                     << CallE(fn, c, 0, "message", sid),
                        EmitE(fn, c, 0, "error", sid, "", NoMsg, "Invalid message format") >>)
                /\ UNCHANGED <<queue, next_msg, next_job, sender_of, job_log>>
           ELSE /\ call_log' = Append(call_log, << InputE(fn, c, data) >> \o
                     << CallE(fn, c, 0, "message", sid) >> \o r.entries
                     \o (IF r.error # ""
                         THEN << EmitE(fn, c, 0, "error", sid, "", NoMsg, r.error) >>
                         ELSE <<>>))
                /\ queue' = queue \cup r.jobs
                /\ next_job' = next_job + Cardinality(r.jobs)
                /\ job_log' = Enqueued(job_log, Cardinality(r.jobs))
                /\ next_msg' = IF r.created THEN next_msg + 1 ELSE next_msg
                /\ sender_of' = IF r.created THEN Append(sender_of, sid)
                                ELSE sender_of
    /\ UNCHANGED <<active_connections, sio_sessions, raw_ws_connections,
                   used_ids, last_op, running, temp_wav, conn_log>>
    /\ UNCHANGED <<clock, created>>

(* send_message handing the message to process_message_async as well *)
send_message_queueing(data, emitOk, pubOk) ==
    /\ n_calls < MaxCalls
    /\ n_calls' = n_calls + 1
    /\ LET c == n_calls + 1
           fn == "send_message"
           v == validate_message(data)
           message == create_message(next_msg + 1, Get(data.d, "type", "text"),
                                     Get(data.d, "content", <<>>))
           bc == broadcast_message(c, message, TRUE, "", emitOk, pubOk)
       IN  IF v.raised
           THEN /\ call_log' = Append(call_log, << InputE(fn, c, data) >> \o << RespE(fn, c, 500, InternalError) >>)
                /\ UNCHANGED <<next_msg, sender_of, queue, next_job, job_log>>
           ELSE IF ~v.ok
           THEN /\ call_log' = Append(call_log, << InputE(fn, c, data) >> \o << RespE(fn, c, 400, v.reason) >>)
                /\ UNCHANGED <<next_msg, sender_of, queue, next_job, job_log>>
           ELSE /\ call_log' = Append(call_log, << InputE(fn, c, data) >> \o bc.entries
                     \o << IF bc.raised THEN RespE(fn, c, 500, InternalError)
                           ELSE RespE(fn, c, 200, "") >>)
                /\ next_msg' = next_msg + 1
                /\ sender_of' = Append(sender_of, "")
                /\ queue' = queue \cup {[jid |-> next_job + 1,
                                          task |-> "process_message_async",
                                          payload |-> job_payload(message, "")]}
                /\ next_job' = next_job + 1
                /\ job_log' = Enqueued(job_log, 1)
    /\ UNCHANGED <<active_connections, sio_sessions, raw_ws_connections,
                   used_ids, last_op, running, temp_wav, conn_log>>
    /\ UNCHANGED <<clock, created>>

(* POST /api/message *)
send_message(data, emitOk, pubOk) ==
    /\ n_calls < MaxCalls
    /\ n_calls' = n_calls + 1
    /\ LET c == n_calls + 1
           fn == "send_message"
           v == validate_message(data)
           message == create_message(next_msg + 1, Get(data.d, "type", "text"),
                                     Get(data.d, "content", <<>>))
           bc == broadcast_message(c, message, TRUE, "", emitOk, pubOk)
       IN  IF v.raised
           THEN /\ call_log' = Append(call_log, << InputE(fn, c, data) >> \o << RespE(fn, c, 500, InternalError) >>)
                /\ UNCHANGED <<next_msg, sender_of>>
           ELSE IF ~v.ok
           THEN /\ call_log' = Append(call_log, << InputE(fn, c, data) >> \o << RespE(fn, c, 400, v.reason) >>)
                /\ UNCHANGED <<next_msg, sender_of>>
           ELSE /\ call_log' = Append(call_log, << InputE(fn, c, data) >> \o bc.entries
                     \o << IF bc.raised THEN RespE(fn, c, 500, InternalError)
                           ELSE RespE(fn, c, 200, "") >>)
                /\ next_msg' = next_msg + 1
                /\ sender_of' = Append(sender_of, "")
    /\ UNCHANGED <<active_connections, sio_sessions, raw_ws_connections,
                   used_ids, last_op, queue, running, temp_wav, next_job,
                   job_log, conn_log>>
    /\ UNCHANGED <<clock, created>>

(* POST /api/messages/broadcast *)
api_broadcast_message(data, emitOk, pubOk) ==
    /\ n_calls < MaxCalls
    /\ n_calls' = n_calls + 1
    /\ LET c == n_calls + 1
           fn == "api_broadcast_message"
           v == validate_message(data)
           message == create_message(next_msg + 1, Get(data.d, "type", "text"),
                                     Get(data.d, "content", <<>>))
           bc == broadcast_system_message(c, message, emitOk, pubOk)
       IN  IF data.kind = "none" \/ (data.kind = "dict" /\ DOMAIN data.d = {})
           THEN /\ call_log' = Append(call_log, << InputE(fn, c, data) >> \o << RespE(fn, c, 400, "No data provided") >>)
                /\ UNCHANGED <<next_msg, sender_of>>
           ELSE IF v.raised
           THEN /\ call_log' = Append(call_log, << InputE(fn, c, data) >> \o << RespE(fn, c, 500, InternalError) >>)
                /\ UNCHANGED <<next_msg, sender_of>>
           ELSE IF ~v.ok
           THEN /\ call_log' = Append(call_log, << InputE(fn, c, data) >> \o << RespE(fn, c, 400, v.reason) >>)
                /\ UNCHANGED <<next_msg, sender_of>>
           ELSE /\ call_log' = Append(call_log, << InputE(fn, c, data) >> \o bc.entries
                     \o << IF bc.raised THEN RespE(fn, c, 500, InternalError)
                           ELSE RespE(fn, c, 200, "") >>)
                /\ next_msg' = next_msg + 1
                /\ sender_of' = Append(sender_of, "")
    /\ UNCHANGED <<active_connections, sio_sessions, raw_ws_connections,
                   used_ids, last_op, queue, running, temp_wav, next_job,
                   job_log, conn_log>>
    /\ UNCHANGED <<clock, created>>

(* handle_raw_websocket, from the connect to the welcome message.  A send  *)
(* that fails ends the handler through its finally block.                  *)
handle_raw_websocket_open(connection_id, sendOk) ==
    /\ connection_id \in RawIds \ used_ids
    /\ used_ids' = used_ids \cup {connection_id}
    /\ IF sendOk
       THEN /\ raw_ws_connections' = raw_ws_connections \cup {connection_id}
            /\ active_connections' = add_connection(active_connections, connection_id)
            /\ last_op' = [last_op EXCEPT ![connection_id] = "add"]
       ELSE /\ raw_ws_connections' = raw_ws_connections
            /\ active_connections' = remove_connection(
                   add_connection(active_connections, connection_id), connection_id)
            /\ last_op' = [last_op EXCEPT ![connection_id] = "remove"]
    /\ UNCHANGED <<sio_sessions, queue, running, temp_wav, next_msg, next_job,
                   n_calls, sender_of, call_log, job_log, conn_log>>
    /\ UNCHANGED <<clock, created>>

WsSendE(fn, c, to, what, m) ==
    [kind |-> "ws_send", fn |-> fn, call |-> c, job |-> 0, to |-> to,
     what |-> what, msg |-> m]

(* handle_raw_websocket: one turn of its receive loop on a message.  The   *)
(* content is content, else text; the type is taken as given.  An          *)
(* exception is answered with an error message; when that send fails too   *)
(* the loop is left and the finally block cleans up.                       *)
handle_raw_websocket_message(connection_id, data, emitOk, pubOk, sendOk) ==
    /\ connection_id \in raw_ws_connections
    /\ n_calls < MaxCalls
    /\ n_calls' = n_calls + 1
    /\ LET c == n_calls + 1
           fn == "handle_raw_websocket"
           content == IF Truthy(Get(data.d, "content", <<>>))
                      THEN Get(data.d, "content", <<>>)
                      ELSE Get(data.d, "text", <<>>)
           message_obj == create_message(next_msg + 1,
                                         Get(data.d, "type", "text"), content)
           emit == EmitE(fn, c, 0, "message", "", "", message_obj, "")
           pub == PubE(fn, c, 0, "messages", message_obj)
           failed == data.kind # "dict"
                     \/ (Truthy(content) /\ (~emitOk \/ ~pubOk \/ ~sendOk))
           done == IF data.kind # "dict" \/ ~Truthy(content) THEN <<>>
                   ELSE IF ~emitOk THEN <<>>
                   ELSE IF ~pubOk THEN << emit >>
                   ELSE IF ~sendOk THEN << emit, pub >>
                   ELSE << emit, pub,
                           WsSendE(fn, c, connection_id, "message_received", message_obj) >>
           closed == failed /\ ~sendOk
       IN  /\ call_log' = Append(call_log, << InputE(fn, c, data) >> \o done
                \o (IF failed /\ sendOk
                    THEN << WsSendE(fn, c, connection_id, "error", NoMsg) >>
                    ELSE <<>>))
           /\ IF data.kind = "dict" /\ Truthy(content)
              THEN /\ next_msg' = next_msg + 1
                   /\ sender_of' = Append(sender_of, connection_id)
              ELSE UNCHANGED <<next_msg, sender_of>>
           /\ IF closed
              THEN /\ raw_ws_connections' = raw_ws_connections \ {connection_id}
                   /\ active_connections' = remove_connection(active_connections, connection_id)
                   /\ last_op' = [last_op EXCEPT ![connection_id] = "remove"]
              ELSE UNCHANGED <<raw_ws_connections, active_connections, last_op>>
    /\ UNCHANGED <<sio_sessions, used_ids, queue, running, temp_wav, next_job,
                   job_log, conn_log>>
    /\ UNCHANGED <<clock, created>>

(* handle_raw_websocket whose finally block forgets the registry *)
handle_raw_websocket_close_leaking(connection_id) ==
    /\ connection_id \in raw_ws_connections
    /\ raw_ws_connections' = raw_ws_connections \ {connection_id}
    /\ UNCHANGED <<active_connections, last_op>>
    /\ UNCHANGED <<sio_sessions, used_ids, queue, running, temp_wav, next_msg,
                   next_job, n_calls, sender_of, call_log, job_log, conn_log>>
    /\ UNCHANGED <<clock, created>>

(* handle_raw_websocket: the client closed; the finally block cleans up *)
handle_raw_websocket_close(connection_id) ==
    /\ connection_id \in raw_ws_connections
    /\ raw_ws_connections' = raw_ws_connections \ {connection_id}
    /\ active_connections' = remove_connection(active_connections, connection_id)
    /\ last_op' = [last_op EXCEPT ![connection_id] = "remove"]
    /\ UNCHANGED <<sio_sessions, used_ids, queue, running, temp_wav, next_msg,
                   next_job, n_calls, sender_of, call_log, job_log, conn_log>>
    /\ UNCHANGED <<clock, created>>

----------------------------------------------------------------------------
(* Celery tasks (tasks/message_tasks.py) *)

Job(jid, task, payload) == [jid |-> jid, task |-> task, payload |-> payload]

(* dispatch sending audio to generate_image_async as well *)
dispatch_audio_to_image(message_data) ==
    (IF message_data.type \in {"text", "audio"} /\ Truthy(message_data.content)
     THEN << "generate_image_async" >> ELSE <<>>)
    \o (IF message_data.type = "audio" /\ Truthy(message_data.content)
        THEN << "whisper_audio_async" >> ELSE <<>>)

(* dispatch without the checks of the content *)
dispatch_ignoring_content(message_data) ==
    (IF message_data.type = "text" THEN << "generate_image_async" >> ELSE <<>>)
    \o (IF message_data.type = "audio" THEN << "whisper_audio_async" >> ELSE <<>>)

(* process_message_async: the .delay calls it makes for a payload, in order *)
dispatch(message_data) ==
    (IF message_data.type = "text" /\ Truthy(message_data.content)
     THEN << "generate_image_async" >> ELSE <<>>)
    \o (IF message_data.type = "audio" /\ Truthy(message_data.content)
        THEN << "whisper_audio_async" >> ELSE <<>>)

(* process_message_async without the try/except around the .delay calls: *)
(* a refused call reaches the outer handler, which raises again          *)
process_message_async_uncaught(j, brokerOk) ==
    /\ j \in queue
    /\ j.task = "process_message_async"
    /\ LET fn == "process_message_async"
           calls == dispatch(j.payload)
           new == IF brokerOk
                  THEN {Job(next_job + k, calls[k], j.payload) : k \in 1..Len(calls)}
                  ELSE {}
       IN  /\ queue' = (queue \ {j}) \cup new
           /\ next_job' = next_job + Cardinality(new)
           /\ job_log' = Enqueued(Ran(job_log, j.jid,
                  [k \in 1..Len(calls) |->
                      EnqE(fn, 0, j.jid, calls[k], j.payload, brokerOk)]
                  \o << IF brokerOk \/ calls = <<>>
                        THEN RetE(fn, 0, j.jid, TRUE, "", j.payload)
                        ELSE RaiseE(fn, 0, j.jid, j.payload) >>),
                  Cardinality(new))
    /\ UNCHANGED <<active_connections, sio_sessions, raw_ws_connections,
                   used_ids, last_op, running, temp_wav, next_msg, n_calls, sender_of, call_log, conn_log>>
    /\ UNCHANGED <<clock, created>>

process_message_async(j, brokerOk) ==
    /\ j \in queue
    /\ j.task = "process_message_async"
    /\ LET fn == "process_message_async"
           calls == dispatch(j.payload)
           new == IF brokerOk
                  THEN {Job(next_job + k, calls[k], j.payload) : k \in 1..Len(calls)}
                  ELSE {}
       IN  /\ queue' = (queue \ {j}) \cup new
           /\ next_job' = next_job + Cardinality(new)
           /\ job_log' = Enqueued(Ran(job_log, j.jid,
                  [k \in 1..Len(calls) |->
                      EnqE(fn, 0, j.jid, calls[k], j.payload, brokerOk)]
                  \o << RetE(fn, 0, j.jid, TRUE, "", j.payload) >>),
                  Cardinality(new))
    /\ UNCHANGED <<active_connections, sio_sessions, raw_ws_connections,
                   used_ids, last_op, running, temp_wav, next_msg, n_calls, sender_of, call_log, conn_log>>
    /\ UNCHANGED <<clock, created>>

(* whisper_result without the lstrip of the segment's text *)
RECURSIVE whisper_result_unstripped(_, _)
whisper_result_unstripped(result, segments) ==
    IF segments = <<>> THEN result
    ELSE whisper_result_unstripped(result \o Head(segments) \o <<"\n", "\n">>,
                                   Tail(segments))

(* whisper_audio_async: the text built from the segments, as its loop does: *)
(* result = " ", then result + segment.text.lstrip() + "\n\n" per segment   *)
RECURSIVE whisper_result(_, _)
whisper_result(result, segments) ==
    IF segments = <<>> THEN result
    ELSE whisper_result(result \o lstrip(Head(segments)) \o <<"\n", "\n">>,
                        Tail(segments))

(* whisper_audio_async up to the write of temp.wav.  The model is loaded   *)
(* before the try block, so a failure to load leaves the task by raising.  *)
(* open(temp_path, 'wb') truncates the file before the content is decoded. *)
whisper_audio_async_start(j, modelOk) ==
    /\ j \in queue
    /\ j.task = "whisper_audio_async"
    /\ Cardinality(running) < MaxWorkers
    /\ LET fn == "whisper_audio_async"
           audio_base64 == j.payload.content
           dec == b64decode(audio_base64)
       IN  IF ~modelOk
           THEN /\ job_log' = Ran(job_log, j.jid, << RaiseE(fn, 0, j.jid, j.payload) >>)
                /\ UNCHANGED <<running, temp_wav>>
           ELSE IF ~Truthy(audio_base64)
           THEN /\ job_log' = Ran(job_log, j.jid, << RetE(fn, 0, j.jid, FALSE, "ValueError", j.payload) >>)
                /\ UNCHANGED <<running, temp_wav>>
           ELSE IF ~dec.ok
           THEN /\ job_log' = Ran(job_log, j.jid, << RetE(fn, 0, j.jid, FALSE, "binascii.Error", j.payload) >>)
                /\ temp_wav' = [exists |-> TRUE, bytes |-> <<>>]
                /\ UNCHANGED running
           ELSE /\ temp_wav' = [exists |-> TRUE, bytes |-> dec.bytes]
                /\ running' = running \cup {j}
                /\ job_log' = Ran(job_log, j.jid, << CallE(fn, 0, j.jid, "write", "temp.wav") >>)
    /\ queue' = queue \ {j}
    /\ UNCHANGED <<active_connections, sio_sessions, raw_ws_connections,
                   used_ids, last_op, next_msg, next_job, n_calls,
                   sender_of, call_log, conn_log>>
    /\ UNCHANGED <<clock, created>>

(* whisper_audio_async from model.transcribe(temp_path) to its return *)
whisper_audio_async_transcribe(j, brokerOk) ==
    /\ j \in running
    /\ running' = running \ {j}
    /\ LET fn == "whisper_audio_async"
           t == transcribe(temp_wav.bytes)
           result == whisper_result(<<" ">>, t.segments)
           message_data == [j.payload EXCEPT !.content = result]
           heard == [kind |-> "transcribed", fn |-> fn, call |-> 0, job |-> j.jid,
                     segments |-> t.segments]
       IN  IF ~t.ok
           THEN /\ job_log' = Ran(job_log, j.jid, << RetE(fn, 0, j.jid, FALSE, "transcribe", j.payload) >>)
                /\ UNCHANGED <<queue, next_job>>
           ELSE IF ~brokerOk
           THEN /\ job_log' = Ran(job_log, j.jid, << heard,
                          EnqE(fn, 0, j.jid, "generate_image_async", message_data, FALSE),
                          RetE(fn, 0, j.jid, FALSE, "broker", message_data) >>)
                /\ UNCHANGED <<queue, next_job>>
           ELSE /\ job_log' = Enqueued(Ran(job_log, j.jid, << heard,
                          EnqE(fn, 0, j.jid, "generate_image_async", message_data, TRUE),
                          RetE(fn, 0, j.jid, TRUE, "", message_data) >>), 1)
                /\ queue' = queue \cup {Job(next_job + 1, "generate_image_async", message_data)}
                /\ next_job' = next_job + 1
    /\ UNCHANGED <<active_connections, sio_sessions, raw_ws_connections,
                   used_ids, last_op, temp_wav, next_msg, n_calls,
                   sender_of, call_log, conn_log>>
    /\ UNCHANGED <<clock, created>>

(* What the generation service answers: the request raising (timeout,     *)
(* connection refused), a status other than 200, 200 without 'images',     *)
(* 200 with an empty list, 200 with an image PIL cannot open, 200 with an  *)
(* image.                                                                  *)
Upstream == {"exception", "non200", "no_images", "empty_images", "bad_image", "ok"}

(* prompt_data.get("text", ...) on what json.loads gave back: only a dict  *)
(* has .get, and a number, a list, a str or None raises AttributeError,    *)
(* which the except clause for JSONDecodeError does not catch.             *)
prompt_raises(image_prompt) ==
    LET prompt_data == json_loads(image_prompt)
    IN  prompt_data.ok /\ prompt_data.kind # "object"

(* The prompt sent upstream: the 'text' member of a JSON object, the       *)
(* content as it is when the object has none or the content is no JSON.    *)
prompt_text(image_prompt) ==
    LET prompt_data == json_loads(image_prompt)
    IN  IF prompt_data.ok /\ prompt_data.kind = "object"
        THEN Get(prompt_data.obj, "text", image_prompt)
        ELSE image_prompt

(* requests.post(generate_image_URL, json={"positive": prompt_text, ...}) *)
PostE(jid, positive, upstream) ==
    [kind |-> "call", fn |-> "generate_image_async", call |-> 0, job |-> jid,
     what |-> "requests.post", data |-> upstream, positive |-> positive]

(* api_error without the check of the image list *)
api_error_status_only(upstream) ==
    IF upstream = "non200" THEN "API Error: status" ELSE ""

(* The checks on the response: the status, then the image list *)
api_error(upstream) ==
    IF upstream = "non200" THEN "API Error: status"
    ELSE IF upstream \in {"no_images", "empty_images"}
    THEN "API Error: No images returned from API"
    ELSE ""

(* emit_image without room=: the event goes to every session *)
emit_image_to_all(jid, message_data, prompt) ==
    EmitE("generate_image_async", 0, jid, "image", "", "",
          [id |-> message_data.id, type |-> "image", content |-> prompt], "")

(* The emit of the 'image' event: socketio.emit('image', {...}, room=sender_sid) *)
emit_image(jid, message_data, prompt) ==
    EmitE("generate_image_async", 0, jid, "image", message_data.sid, "",
          [id |-> message_data.id, type |-> "image", content |-> prompt], "")

(* generate_image_async without the inner try/except around the delivery:  *)
(* a failure to decode the image or to emit reaches the outer handler       *)
generate_image_async_delivery_uncaught(j, upstream, emitOk) ==
    /\ j \in queue
    /\ j.task = "generate_image_async"
    /\ queue' = queue \ {j}
    /\ LET fn == "generate_image_async"
           message_data == j.payload
           prompt == prompt_text(message_data.content)
           sender_sid == message_data.sid
           post == PostE(j.jid, prompt, upstream)
       IN  IF prompt_raises(message_data.content)
           THEN job_log' = Ran(job_log, j.jid,
                    << CallE(fn, 0, j.jid, "json.loads", "AttributeError"),
                       RetE(fn, 0, j.jid, FALSE, "Error generating image", message_data) >>)
           ELSE IF upstream = "exception"
           THEN job_log' = Ran(job_log, j.jid,
                    << post, RetE(fn, 0, j.jid, FALSE, "Error generating image", message_data) >>)
           ELSE IF api_error(upstream) # ""
           THEN job_log' = Ran(job_log, j.jid,
                    << post, RetE(fn, 0, j.jid, FALSE, api_error(upstream), message_data) >>)
           ELSE IF sender_sid # "" /\ upstream = "ok" /\ emitOk
           THEN job_log' = Ran(job_log, j.jid,
                    << post, emit_image(j.jid, message_data, prompt),
                       RetE(fn, 0, j.jid, TRUE, "", message_data) >>)
           ELSE IF sender_sid # ""
           THEN job_log' = Ran(job_log, j.jid,
                    << post, RetE(fn, 0, j.jid, FALSE, "Error generating image", message_data) >>)
           ELSE job_log' = Ran(job_log, j.jid,
                    << post, RetE(fn, 0, j.jid, TRUE, "", message_data) >>)
    /\ UNCHANGED <<active_connections, sio_sessions, raw_ws_connections,
                   used_ids, last_op, running, temp_wav, next_msg, next_job,
                   n_calls, sender_of, call_log, conn_log>>
    /\ UNCHANGED <<clock, created>>

generate_image_async(j, upstream, emitOk) ==
    /\ j \in queue
    /\ j.task = "generate_image_async"
    /\ queue' = queue \ {j}
    /\ LET fn == "generate_image_async"
           message_data == j.payload
           prompt == prompt_text(message_data.content)
           sender_sid == message_data.sid
           post == PostE(j.jid, prompt, upstream)
       IN  IF prompt_raises(message_data.content)
           THEN job_log' = Ran(job_log, j.jid,
                    << CallE(fn, 0, j.jid, "json.loads", "AttributeError"),
                       RetE(fn, 0, j.jid, FALSE, "Error generating image", message_data) >>)
           ELSE IF upstream = "exception"
           THEN job_log' = Ran(job_log, j.jid,
                    << post, RetE(fn, 0, j.jid, FALSE, "Error generating image", message_data) >>)
           ELSE IF api_error(upstream) # ""
           THEN job_log' = Ran(job_log, j.jid,
                    << post, RetE(fn, 0, j.jid, FALSE, api_error(upstream), message_data) >>)
           ELSE IF sender_sid # "" /\ upstream = "ok" /\ emitOk
           THEN job_log' = Ran(job_log, j.jid,
                    << post, emit_image(j.jid, message_data, prompt),
                       RetE(fn, 0, j.jid, TRUE, "", message_data) >>)
           ELSE job_log' = Ran(job_log, j.jid,
                    << post, RetE(fn, 0, j.jid, TRUE, "", message_data) >>)
    /\ UNCHANGED <<active_connections, sio_sessions, raw_ws_connections,
                   used_ids, last_op, running, temp_wav, next_msg, next_job,
                   n_calls, sender_of, call_log, conn_log>>
    /\ UNCHANGED <<clock, created>>

----------------------------------------------------------------------------
(* Sessions joining and leaving *)
Connections ==
    \/ \E sid \in Sids : handle_connect(sid)
    \/ \E sid \in Sids : handle_disconnect(sid)
    \/ \E r \in RawIds, w \in BOOLEAN : handle_raw_websocket_open(r, w)
    \/ \E r \in RawIds : handle_raw_websocket_close(r)

(* The worker pool *)
Workers ==
    \/ \E j \in queue, b \in BOOLEAN : process_message_async(j, b)
    \/ \E j \in queue, m \in BOOLEAN : whisper_audio_async_start(j, m)
    \/ \E j \in running, b \in BOOLEAN : whisper_audio_async_transcribe(j, b)
    \/ \E j \in queue, u \in Upstream, e \in BOOLEAN : generate_image_async(j, u, e)

(* The ingress handlers, each on any input *)
Next ==
    \/ Connections
    \/ Workers
    \/ n_calls < MaxCalls
          /\ \E sid \in sio_sessions, i \in 1..Len(Inputs), b \in BOOLEAN :
                handle_message(sid, Inputs[i], b)
    \/ n_calls < MaxCalls
          /\ \E i \in 1..Len(Inputs), e \in BOOLEAN, p \in BOOLEAN :
                send_message(Inputs[i], e, p)
    \/ n_calls < MaxCalls
          /\ \E i \in 1..Len(Inputs), e \in BOOLEAN, p \in BOOLEAN :
                api_broadcast_message(Inputs[i], e, p)
    \/ n_calls < MaxCalls
          /\ \E r \in raw_ws_connections, i \in 1..Len(Inputs), e \in BOOLEAN,
                p \in BOOLEAN, w \in BOOLEAN :
                handle_raw_websocket_message(r, Inputs[i], e, p, w)

Spec == Init /\ [][Next]_vars

----------------------------------------------------------------------------
(* The service API called directly, with any arguments, next to the wired  *)
(* handlers: the registry methods, MessageService.process_incoming_message *)
(* and broadcast_message with any flags, and a task sent to the broker by  *)
(* name with any payload.                                                  *)

ApiPayloads ==
    [id : {0}, type : {"text", "audio", "image", ""},
     content : {<<>>, <<"a">>, <<"A1">>}, sid : {"", "s1"}]

Tasks == {"process_message_async", "whisper_audio_async", "generate_image_async"}

Envs == [confOk : BOOLEAN, emitOk : BOOLEAN, pubOk : BOOLEAN, brokerOk : BOOLEAN]

call_add_connection(sid) ==
    /\ active_connections' = add_connection(active_connections, sid)
    /\ last_op' = [last_op EXCEPT ![sid] = "add"]
    /\ UNCHANGED <<sio_sessions, raw_ws_connections, used_ids, queue, running,
                   temp_wav, next_msg, next_job, n_calls, sender_of, call_log,
                   job_log, conn_log>>
    /\ UNCHANGED <<clock, created>>

call_remove_connection(sid) ==
    /\ active_connections' = remove_connection(active_connections, sid)
    /\ last_op' = [last_op EXCEPT ![sid] = "remove"]
    /\ UNCHANGED <<sio_sessions, raw_ws_connections, used_ids, queue, running,
                   temp_wav, next_msg, next_job, n_calls, sender_of, call_log,
                   job_log, conn_log>>
    /\ UNCHANGED <<clock, created>>

call_process_incoming_message(sid, data, send_confirmation, broadcast_to_others, queue_async_task, env) ==
    /\ sid \in sio_sessions
    /\ n_calls < MaxCalls
    /\ n_calls' = n_calls + 1
    /\ LET r == process_incoming_message(n_calls + 1, data, sid, send_confirmation,
                    broadcast_to_others, queue_async_task, env)
       IN  /\ call_log' = Append(call_log,
                << InputE("call", n_calls + 1, data) >> \o r.entries)
           /\ queue' = queue \cup r.jobs
           /\ next_job' = next_job + Cardinality(r.jobs)
           /\ job_log' = Enqueued(job_log, Cardinality(r.jobs))
           /\ next_msg' = IF r.created THEN next_msg + 1 ELSE next_msg
           /\ sender_of' = IF r.created THEN Append(sender_of, sid) ELSE sender_of
    /\ UNCHANGED <<active_connections, sio_sessions, raw_ws_connections,
                   used_ids, last_op, running, temp_wav, conn_log>>
    /\ UNCHANGED <<clock, created>>

call_broadcast_message(include_sender, skip_sid, emitOk, pubOk) ==
    /\ n_calls < MaxCalls
    /\ n_calls' = n_calls + 1
    /\ LET message == create_message(next_msg + 1, "text", <<"a">>)
           bc == broadcast_message(n_calls + 1, message, include_sender, skip_sid,
                                   emitOk, pubOk)
       IN  call_log' = Append(call_log, bc.entries
               \o (IF bc.raised
                   THEN << RaiseE("broadcast_message", n_calls + 1, 0, NoPayload) >>
                   ELSE <<>>))
    /\ next_msg' = next_msg + 1
    /\ sender_of' = Append(sender_of, "")
    /\ UNCHANGED <<active_connections, sio_sessions, raw_ws_connections,
                   used_ids, last_op, queue, running, temp_wav, next_job,
                   job_log, conn_log>>
    /\ UNCHANGED <<clock, created>>

call_send_task(task, payload) ==
    /\ n_calls < MaxCalls
    /\ n_calls' = n_calls + 1
    /\ queue' = queue \cup {Job(next_job + 1, task, payload)}
    /\ next_job' = next_job + 1
    /\ job_log' = Enqueued(job_log, 1)
    /\ call_log' = Append(call_log,
          << EnqE("send_task", n_calls + 1, 0, task, payload, TRUE) >>)
    /\ UNCHANGED <<active_connections, sio_sessions, raw_ws_connections,
                   used_ids, last_op, running, temp_wav, next_msg, sender_of,
                   conn_log>>
    /\ UNCHANGED <<clock, created>>

NextApi ==
    \/ Next
    \/ n_calls < MaxCalls
          /\ \E sid \in sio_sessions, i \in 1..Len(Inputs), sc \in BOOLEAN,
                bo \in BOOLEAN, qa \in BOOLEAN, env \in Envs :
                call_process_incoming_message(sid, Inputs[i], sc, bo, qa, env)
    \/ n_calls < MaxCalls
          /\ \E inc \in BOOLEAN, skip \in Ids \cup {""}, e \in BOOLEAN,
                p \in BOOLEAN : call_broadcast_message(inc, skip, e, p)
    \/ n_calls < MaxCalls
          /\ \E t \in Tasks, p \in ApiPayloads : call_send_task(t, p)

SpecApi == Init /\ [][NextApi]_vars

(* The Session Registry under every interleaving of the calls made on it:  *)
(* by the connection handlers and by any other caller, with any id.        *)
NextRegistry ==
    \/ Connections
    \/ \E sid \in Ids : call_add_connection(sid)
    \/ \E sid \in Ids : call_remove_connection(sid)

SpecRegistry == Init /\ [][NextRegistry]_vars

----------------------------------------------------------------------------
(* The worker pool on audio alone: audio messages of two senders handed to *)
(* whisper_audio_async, whose runs and the image jobs they start           *)
(* interleave.  All workers run in the same directory, so "temp.wav" is    *)
(* one file.                                                               *)

MaxAudioJobs == 2

AudioPayloads ==
    {[id |-> 1, type |-> "audio", content |-> <<"A1">>, sid |-> "s1"],
     [id |-> 2, type |-> "audio", content |-> <<"A2">>, sid |-> "s2"]}

(* whisper_audio_async.delay(message_data), as the dispatcher does for an  *)
(* audio message                                                           *)
send_task_whisper(message_data) ==
    /\ next_job < MaxAudioJobs
    /\ message_data.id = next_job + 1
    /\ queue' = queue \cup {Job(next_job + 1, "whisper_audio_async", message_data)}
    /\ next_job' = next_job + 1
    /\ job_log' = Enqueued(job_log, 1)
    /\ UNCHANGED <<active_connections, sio_sessions, raw_ws_connections,
                   used_ids, last_op, running, temp_wav, next_msg, n_calls,
                   sender_of, call_log, conn_log>>
    /\ UNCHANGED <<clock, created>>

NextWhisper ==
    \/ \E p \in AudioPayloads : send_task_whisper(p)
    \/ \E j \in queue, m \in BOOLEAN : whisper_audio_async_start(j, m)
    \/ \E j \in running, b \in BOOLEAN : whisper_audio_async_transcribe(j, b)
    \/ \E j \in queue, u \in Upstream, e \in BOOLEAN : generate_image_async(j, u, e)

SpecWhisper == Init /\ [][NextWhisper]_vars

----------------------------------------------------------------------------
(* Message.create: the id it makes.  uuid.uuid4().hex is 32 hexadecimal    *)
(* digits, here its first 12 (head) and its last 20 (tail); the id is      *)
(* "msg_", the first 12 digits, "_" and the time in milliseconds.  The     *)
(* process keeps no record of the ids it gave.  Two calls of uuid4 are     *)
(* taken to give different values; of the 32 digits only 12 go into the id.*)

MaxMessages == 3

MaxClock == 2

Uuids == [head : {"a1", "b2"}, tail : {"c3", "d4"}]

hex_12(u) == u.head

Message_id(u, ms) == <<"msg_", hex_12(u), "_", ms>>

Message_create(u) ==
    /\ Len(created) < MaxMessages
    /\ \A i \in 1..Len(created) : created[i].uuid # u
    /\ created' = Append(created,
                         [uuid |-> u, ms |-> clock, id |-> Message_id(u, clock)])
    /\ UNCHANGED <<active_connections, sio_sessions, raw_ws_connections,
                   used_ids, last_op, queue, running, temp_wav, next_msg,
                   next_job, n_calls, sender_of, call_log, job_log, conn_log,
                   clock>>

(* A millisecond passes *)
tick ==
    /\ clock < MaxClock
    /\ clock' = clock + 1
    /\ UNCHANGED <<active_connections, sio_sessions, raw_ws_connections,
                   used_ids, last_op, queue, running, temp_wav, next_msg,
                   next_job, n_calls, sender_of, call_log, job_log, conn_log,
                   created>>

(* Messages created one after the other in one process, at any pace *)
NextIds ==
    \/ \E u \in Uuids : Message_create(u)
    \/ tick

SpecIds == Init /\ [][NextIds]_vars

----------------------------------------------------------------------------
(* Reading the logs *)

RECURSIVE Flat(_)
Flat(ss) == IF ss = <<>> THEN <<>> ELSE Head(ss) \o Flat(Tail(ss))

JobEntries == Flat(job_log)

CallEntries == Flat(call_log)

IsImageEmit(e) == e.kind = "emit" /\ e.event = "image"

(* The payload a task ran on: the one its return (or raise) carries *)
Ran_on(jid, payload) ==
    \E k \in 1..Len(job_log[jid]) :
        /\ job_log[jid][k].kind \in {"return", "raise"}
        /\ job_log[jid][k].payload = payload

Count(es, P(_)) == Cardinality({k \in 1..Len(es) : P(es[k])})

----------------------------------------------------------------------------
(* C1: a successful generate_image_async emits 'image' at most once, to    *)
(* the room of the session id stored in its payload; the event reaches no  *)
(* other session and is never emitted to all sessions, whatever other      *)
(* sessions are connected.                                                 *)
C1_ImageOnlyToStoredSid ==
    /\ \A k \in 1..Len(CallEntries) : ~IsImageEmit(CallEntries[k])
    /\ \A jid \in 1..Len(job_log) :
          /\ Count(job_log[jid], IsImageEmit) <= 1
          /\ \A k \in 1..Len(job_log[jid]) :
                LET e == job_log[jid][k]
                IN  IsImageEmit(e) =>
                      /\ e.fn = "generate_image_async"
                      /\ e.room # ""
                      /\ \E p \in {job_log[jid][Len(job_log[jid])].payload} :
                            e.room = p.sid
                      /\ e.to \subseteq {e.room}
                      /\ job_log[jid][1].data = "ok"

(* An image reached s1 while s2 was registered too *)
C1_Witness ==
    \E k \in 1..Len(JobEntries) :
        /\ IsImageEmit(JobEntries[k])
        /\ JobEntries[k].to = {"s1"}
        /\ "s2" \in JobEntries[k].reg

----------------------------------------------------------------------------
(* C2, as the code has it: a transcription job that got segments from the  *)
(* model makes exactly one enqueue call, for generate_image_async; the     *)
(* payload's content is a space, then each segment's text without its      *)
(* leading whitespace and followed by two newlines; its sid is the sid of   *)
(* the session that sent the message; the call queues exactly one job when *)
(* the broker accepts it.                                                  *)
IsEnqueue(e) == e.kind = "enqueue"

C2_Strip(text) ==
    LET kept == {i \in 1..Len(text) : \E m \in 1..i : text[m] \notin {" ", "\n"}}
    IN  [i \in 1..Cardinality(kept) |-> text[Len(text) - Cardinality(kept) + i]]

C2_Content(segments) ==
    <<" ">> \o Flat([k \in 1..Len(segments) |->
                        C2_Strip(segments[k]) \o <<"\n", "\n">>])

C2_ImageJobs(payload) ==
    Cardinality({j \in queue : j.task = "generate_image_async"
                                  /\ j.payload = payload})
    + Cardinality({jid \in 1..Len(job_log) :
                      /\ job_log[jid] # <<>>
                      /\ job_log[jid][1].fn = "generate_image_async"
                      /\ Ran_on(jid, payload)})

C2_TranscriptionChain ==
    \A jid \in 1..Len(job_log) : \A k \in 1..Len(job_log[jid]) :
        LET log == job_log[jid]
        IN  log[k].kind = "transcribed" =>
              /\ Len(log) = k + 2
              /\ Count(log, IsEnqueue) = 1
              /\ log[k + 1].kind = "enqueue"
              /\ log[k + 1].task = "generate_image_async"
              /\ log[k + 1].payload.content = C2_Content(log[k].segments)
              /\ log[k + 1].payload.id \in 1..Len(sender_of)
              /\ log[k + 1].payload.sid = sender_of[log[k + 1].payload.id]
              /\ C2_ImageJobs(log[k + 1].payload) = IF log[k + 1].ok THEN 1 ELSE 0

(* The clip of two segments went through: " yo", "ok" became the prompt *)
C2_Witness ==
    \E jid \in 1..Len(job_log) : \E k \in 1..Len(job_log[jid]) :
        /\ job_log[jid][k].kind = "transcribed"
        /\ job_log[jid][k].segments = << <<" ", "y", "o">>, <<"o", "k">> >>
        /\ job_log[jid][k + 1].ok
        /\ job_log[jid][k + 1].payload.content
              = <<" ", "y", "o", "\n", "\n", "o", "k", "\n", "\n">>
        /\ job_log[jid][k + 1].payload.sid = "s1"

(* C2 as stated: the enqueued content equals the text T of the             *)
(* transcription, the segments' texts one after the other.                 *)
C2_Original ==
    \A jid \in 1..Len(job_log) : \A k \in 1..Len(job_log[jid]) :
        LET log == job_log[jid]
        IN  log[k].kind = "transcribed" =>
              /\ Count(log, IsEnqueue) = 1
              /\ log[k + 1].kind = "enqueue"
              /\ log[k + 1].task = "generate_image_async"
              /\ log[k + 1].payload.content = Flat(log[k].segments)
              /\ log[k + 1].payload.sid = sender_of[log[k + 1].payload.id]

----------------------------------------------------------------------------
(* C3: for every payload the dispatcher ran on, the .delay calls it made   *)
(* are: one for generate_image_async and none for whisper_audio_async when *)
(* the type is 'text' and the content is not empty; one for                *)
(* whisper_audio_async and none for generate_image_async when the type is  *)
(* 'audio' and the content is not empty; none at all otherwise.  Each call *)
(* passes the payload on as it is.                                         *)
C3_TaskGraph ==
    \A jid \in 1..Len(job_log) : \A k \in 1..Len(job_log[jid]) :
        LET log == job_log[jid]
            p == log[k].payload
            image == Count(log, LAMBDA e : IsEnqueue(e)
                                   /\ e.task = "generate_image_async")
            whisper == Count(log, LAMBDA e : IsEnqueue(e)
                                     /\ e.task = "whisper_audio_async")
        IN  (log[k].kind = "return" /\ log[k].fn = "process_message_async") =>
              /\ image = IF p.type = "text" /\ p.content # <<>> THEN 1 ELSE 0
              /\ whisper = IF p.type = "audio" /\ p.content # <<>> THEN 1 ELSE 0
              /\ Count(log, IsEnqueue) = image + whisper
              /\ \A m \in 1..Len(log) : IsEnqueue(log[m]) => log[m].payload = p

(* The dispatcher ran on a text payload with no content and made no call *)
C3_Witness ==
    \E jid \in 1..Len(job_log) : \E k \in 1..Len(job_log[jid]) :
        /\ job_log[jid][k].kind = "return"
        /\ job_log[jid][k].fn = "process_message_async"
        /\ job_log[jid][k].payload.type = "text"
        /\ job_log[jid][k].payload.content = <<>>
        /\ Len(job_log[jid]) = 1

----------------------------------------------------------------------------
(* C4: every payload in the queue, in a running task, passed to an enqueue *)
(* call or held by a task that returned or raised carries the sid of the   *)
(* session that sent the message it descends from; the 'image' event goes  *)
(* to that sid.                                                            *)
C4_Carries(payload) ==
    /\ payload.id \in 1..Len(sender_of)
    /\ payload.sid = sender_of[payload.id]
    /\ payload.sid \in Sids

C4_SidCarried ==
    /\ \A j \in queue \cup running : C4_Carries(j.payload)
    /\ \A k \in 1..Len(CallEntries) :
          IsEnqueue(CallEntries[k]) => C4_Carries(CallEntries[k].payload)
    /\ \A k \in 1..Len(JobEntries) :
          /\ JobEntries[k].kind \in {"enqueue", "return", "raise"}
                => C4_Carries(JobEntries[k].payload)
          /\ IsImageEmit(JobEntries[k])
                => JobEntries[k].room = sender_of[JobEntries[k].msg.id]

(* The image job the transcription of s2's audio enqueued is in the queue  *)
C4_Witness ==
    \E j \in queue :
        /\ j.task = "generate_image_async"
        /\ j.payload.content = <<" ", "h", "i", "\n", "\n">>
        /\ j.payload.sid = "s2"
        /\ sender_of[j.payload.id] = "s2"

----------------------------------------------------------------------------
(* C5: a call of handle_message (process_incoming_message), send_message   *)
(* or the broadcast route whose input has no body, no content or a type    *)
(* that is not supported ends with the reason given to the caller (a 400   *)
(* response, or the error returned and emitted to the sender alone) and    *)
(* makes no other emit, no publish and no enqueue call.                    *)
C5_Reasons ==
    {"No data provided", "Content is required", "Invalid message type",
     "Invalid message format"}

C5_Content(fn, d) ==
    IF Get(d, "content", <<>>) # <<>> THEN d["content"]
    ELSE IF fn = "handle_message" THEN Get(d, "text", <<>>)
    ELSE <<>>

C5_Invalid(fn, data) ==
    \/ data.kind = "none"
    \/ /\ data.kind = "dict"
       /\ \/ C5_Content(fn, data.d) = <<>>
          \/ Get(data.d, "type", "text") \notin {"text", "image", "audio"}

C5_Rejected(log) ==
    LET fn == log[1].fn
        last == log[Len(log)]
    IN  /\ \A k \in 2..Len(log) :
              /\ log[k].kind \notin {"publish", "enqueue", "ws_send"}
              /\ log[k].kind = "emit" =>
                    /\ log[k].event = "error"
                    /\ log[k].room = log[2].data
                    /\ log[k].to \subseteq {log[2].data}
                    /\ log[k].info \in C5_Reasons
        /\ IF fn = "handle_message"
           THEN /\ last.kind = "emit"
                /\ log[1].input.kind = "dict" =>
                      /\ log[3].kind = "return"
                      /\ log[3].result = FALSE
                      /\ log[3].error = last.info
           ELSE /\ last.kind = "response"
                /\ last.status = 400
                /\ last.error \in C5_Reasons

C5_ValidationFailure ==
    /\ \A c \in 1..Len(call_log) :
          (/\ call_log[c][1].kind = "input"
           /\ call_log[c][1].fn \in {"handle_message", "send_message",
                                      "api_broadcast_message"}
           /\ C5_Invalid(call_log[c][1].fn, call_log[c][1].input))
             => C5_Rejected(call_log[c])
    /\ (\A c \in 1..Len(call_log) :
            /\ call_log[c][1].fn \in {"handle_message", "send_message",
                                       "api_broadcast_message"}
            /\ C5_Invalid(call_log[c][1].fn, call_log[c][1].input))
          => (job_log = <<>> /\ queue = {} /\ next_msg = 0)

(* s1 sent a message of type 'video' and got 'Invalid message type' back *)
C5_Witness ==
    \E c \in 1..Len(call_log) :
        /\ call_log[c][1].fn = "handle_message"
        /\ call_log[c][1].input = Obj([type |-> "video", content |-> <<"a">>])
        /\ call_log[c][Len(call_log[c])].kind = "emit"
        /\ call_log[c][Len(call_log[c])].info = "Invalid message type"
        /\ call_log[c][Len(call_log[c])].to = {"s1"}

----------------------------------------------------------------------------
(* C6: a call of broadcast_message(msg, include_sender=False, skip_sid=A)  *)
(* that succeeds, made while the registry holds three ids with A among     *)
(* them, delivers the 'message' event to exactly the two other ids of the  *)
(* registry as it was at the call, and publishes once to 'messages'.       *)
IsBroadcastStart(e) ==
    e.kind = "call" /\ e.fn = "broadcast_message" /\ e.what = "start"

C6_BroadcastExcluding ==
    \A c \in 1..Len(call_log) : \A k \in 1..Len(call_log[c]) :
        LET log == call_log[c]
            A == log[k].data
        IN  (/\ IsBroadcastStart(log[k])
             /\ A # ""
             /\ k + 2 <= Len(log)
             /\ log[k + 1].kind = "emit"
             /\ log[k + 2].kind = "publish"
             /\ Cardinality(log[k + 1].reg) = 3
             /\ A \in log[k + 1].reg)
              => /\ log[k + 1].event = "message"
                 /\ log[k + 1].to = log[k + 1].reg \ {A}
                 /\ Count(log, LAMBDA e : e.kind = "publish"
                                      /\ e.topic = "messages") = 1

----------------------------------------------------------------------------
(* C7: in a call that succeeds, a broadcast without exclusion (of          *)
(* broadcast_message or broadcast_system_message) reaches every id that is *)
(* in the registry at the call.                                            *)
C7_BroadcastReachesRegistry ==
    \A c \in 1..Len(call_log) : \A k \in 1..Len(call_log[c]) :
        LET log == call_log[c]
        IN  (/\ log[k].kind = "emit"
             /\ log[k].fn \in {"broadcast_message", "broadcast_system_message"}
             /\ log[k].skip = ""
             /\ log[Len(log)].kind = "response"
             /\ log[Len(log)].status = 200)
              => log[k].reg \subseteq log[k].to

----------------------------------------------------------------------------
(* C8: under every interleaving of add_connection and remove_connection    *)
(* calls the registry holds exactly the ids whose last call was an add:    *)
(* get_connection_count() is their number and is_connected(id) is true for *)
(* them alone; before any call the registry is empty.                      *)
C8_Added == {i \in Ids : last_op[i] = "add"}

C8_RegistryConsistent ==
    /\ get_connection_count(active_connections) = Cardinality(C8_Added)
    /\ \A i \in Ids : is_connected(active_connections, i) <=> i \in C8_Added
    /\ (\A i \in Ids : last_op[i] = "none") => active_connections = {}

(* s1 was added and removed, s2 and r1 were added: the count is 2 *)
C8_Witness ==
    /\ last_op["s1"] = "remove"
    /\ last_op["s2"] = "add"
    /\ last_op["r1"] = "add"
    /\ get_connection_count(active_connections) = 2
    /\ ~is_connected(active_connections, "s1")

----------------------------------------------------------------------------
(* C9: a run of generate_image_async whose request is answered with a      *)
(* status other than 200, or with 200 and no or an empty image list, makes *)
(* that one request and returns (None, error): no second request, no emit, *)
(* no enqueue call.                                                        *)
C9_UpstreamFailure ==
    \A jid \in 1..Len(job_log) :
        LET log == job_log[jid]
        IN  (/\ log # <<>>
             /\ log[1].fn = "generate_image_async"
             /\ log[1].data \in {"non200", "no_images", "empty_images"})
              => /\ Len(log) = 2
                 /\ log[1].what = "requests.post"
                 /\ log[2].kind = "return"
                 /\ log[2].result = FALSE
                 /\ log[2].error \in {"API Error: status",
                                      "API Error: No images returned from API"}

(* The service answered 200 with an empty list to the job of s1's message *)
C9_Witness ==
    \E jid \in 1..Len(job_log) :
        /\ Len(job_log[jid]) = 2
        /\ job_log[jid][1].fn = "generate_image_async"
        /\ job_log[jid][1].data = "empty_images"
        /\ job_log[jid][2].result = FALSE
        /\ job_log[jid][2].payload.sid = "s1"
        /\ "s1" \in sio_sessions

----------------------------------------------------------------------------
(* C10: a run of whisper_audio_async that fails before it has segments     *)
(* (the model does not load, the content is empty, base64 does not decode, *)
(* the transcription fails) returns (None, error): it does not raise,      *)
(* makes no enqueue call and no emit.                                      *)
C10_WhisperFailureTerminal ==
    \A jid \in 1..Len(job_log) :
        LET log == job_log[jid]
            last == log[Len(log)]
        IN  (/\ log # <<>>
             /\ last.fn = "whisper_audio_async"
             /\ last.kind \in {"return", "raise"}
             /\ \A k \in 1..Len(log) : log[k].kind # "transcribed")
              => /\ last.kind = "return"
                 /\ last.result = FALSE
                 /\ last.error # ""
                 /\ \A k \in 1..Len(log) : log[k].kind \notin {"enqueue", "emit"}

----------------------------------------------------------------------------
(* C11: a refused enqueue call is caught where it is made.  After a        *)
(* refused send_task, process_incoming_message returns the created message *)
(* with no error, and the confirmation and the broadcast it made before    *)
(* are in its effects, complete; after a refused .delay,                   *)
(* process_message_async returns its 'processed' result and does not raise.*)
C11_EnqueueFailureCaught ==
    /\ \A c \in 1..Len(call_log) : \A k \in 1..Len(call_log[c]) :
          LET log == call_log[c]
              last == log[Len(log)]
          IN  (/\ IsEnqueue(log[k])
               /\ log[k].fn = "process_incoming_message"
               /\ ~log[k].ok)
                => /\ k + 1 = Len(log)
                   /\ last.kind = "return"
                   /\ last.result = TRUE
                   /\ last.error = ""
                   /\ last.payload.id \in 1..next_msg
                   /\ \A m \in 1..Len(log) :
                         IsBroadcastStart(log[m]) =>
                           /\ log[m + 1].kind = "emit"
                           /\ log[m + 2].kind = "publish"
                           /\ m + 2 < k
    /\ \A jid \in 1..Len(job_log) : \A k \in 1..Len(job_log[jid]) :
          LET log == job_log[jid]
              last == log[Len(log)]
          IN  (/\ IsEnqueue(log[k])
               /\ log[k].fn = "process_message_async"
               /\ ~log[k].ok)
                => /\ last.kind = "return"
                   /\ last.result = TRUE
                   /\ last.error = ""
                   /\ \A m \in 1..Len(log) : log[m].kind # "raise"

(* The broker refused the send_task of a call that had confirmed to the   *)
(* sender and broadcast to the others; the call returned the message      *)
C11_Witness ==
    \E c \in 1..Len(call_log) : \E k \in 1..Len(call_log[c]) :
        /\ IsEnqueue(call_log[c][k])
        /\ call_log[c][k].fn = "process_incoming_message"
        /\ ~call_log[c][k].ok
        /\ \E m \in 1..k : IsBroadcastStart(call_log[c][m])
        /\ \E m \in 1..k : /\ call_log[c][m].kind = "emit"
                            /\ call_log[c][m].fn = "send_to_sender"
        /\ call_log[c][Len(call_log[c])].result = TRUE

----------------------------------------------------------------------------
(* C12: in every call of the Socket.IO 'message' handler that enqueues the *)
(* derivation job of a message, the broadcast of that message (the emit of *)
(* 'message' by broadcast_message and the publish to 'messages') comes     *)
(* before the enqueue call.                                                *)
C12_BroadcastBeforeEnqueue ==
    \A c \in 1..Len(call_log) : \A k \in 1..Len(call_log[c]) :
        LET log == call_log[c]
        IN  (/\ log[1].fn = "handle_message"
             /\ IsEnqueue(log[k])
             /\ log[k].ok)
              => /\ \E m \in 1..(k - 1) :
                       /\ log[m].kind = "emit"
                       /\ log[m].fn = "broadcast_message"
                       /\ log[m].event = "message"
                       /\ log[m].msg.id = log[k].payload.id
                 /\ \E m \in 1..(k - 1) :
                       /\ log[m].kind = "publish"
                       /\ log[m].msg.id = log[k].payload.id

----------------------------------------------------------------------------
(* C13: an Image-Generation job of an audio message, queued or run, was    *)
(* enqueued by a run of whisper_audio_async that had its segments and has  *)
(* returned; its payload is the one that run built, with a content that is *)
(* not the audio the message came with; no transcription of that message   *)
(* is queued or running any more.                                          *)
C13_ImagePayloads ==
    {j.payload : j \in {q \in queue : q.task = "generate_image_async"}}
    \cup {job_log[jid][Len(job_log[jid])].payload :
             jid \in {n \in 1..Len(job_log) :
                        /\ job_log[n] # <<>>
                        /\ job_log[n][1].fn = "generate_image_async"}}

C13_Transcribed(payload) ==
    \E jid \in 1..Len(job_log) :
        LET log == job_log[jid]
        IN  /\ Len(log) >= 3
            /\ log[Len(log)].kind = "return"
            /\ log[Len(log)].fn = "whisper_audio_async"
            /\ log[Len(log) - 2].kind = "transcribed"
            /\ IsEnqueue(log[Len(log) - 1])
            /\ log[Len(log) - 1].payload = payload

C13_ChainInSequence ==
    \A p \in C13_ImagePayloads :
        p.type = "audio" =>
          /\ C13_Transcribed(p)
          /\ \A j \in queue \cup running :
                j.task = "whisper_audio_async" => j.payload.id # p.id
          /\ \A c \in 1..Len(call_log) : \A k \in 1..Len(call_log[c]) :
                (IsEnqueue(call_log[c][k]) /\ call_log[c][k].payload.id = p.id)
                  => p.content # call_log[c][k].payload.content

(* The image job of an audio message ran, on the text of the transcription *)
C13_Witness ==
    \E jid \in 1..Len(job_log) :
        /\ job_log[jid] # <<>>
        /\ job_log[jid][1].fn = "generate_image_async"
        /\ job_log[jid][Len(job_log[jid])].payload.type = "audio"
        /\ job_log[jid][Len(job_log[jid])].payload.content
              = <<" ", "h", "i", "\n", "\n">>
        /\ C13_Transcribed(job_log[jid][Len(job_log[jid])].payload)

----------------------------------------------------------------------------
(* C14: a derivation job that the worker pool has taken and finished with  *)
(* (it is neither queued nor running any more) ended with a result: the    *)
(* last effect of its run is a return, of a success or of an error.        *)
C14_JobsEndWithResult ==
    \A jid \in 1..Len(job_log) :
        (\A j \in queue \cup running : j.jid # jid)
          => /\ job_log[jid] # <<>>
             /\ job_log[jid][Len(job_log[jid])].kind = "return"

----------------------------------------------------------------------------
(* C15: a run of generate_image_async whose request was answered 200 with  *)
(* an image returns its result with no error and does not raise, whatever  *)
(* becomes of the delivery: no emit when the payload has no sid or the     *)
(* image cannot be opened, and an emit, when one is made, reaches no       *)
(* session but the one of the payload's sid.                               *)
C15_DeliveryFailureSwallowed ==
    \A jid \in 1..Len(job_log) :
        LET log == job_log[jid]
            last == log[Len(log)]
        IN  (/\ log # <<>>
             /\ log[1].fn = "generate_image_async"
             /\ log[1].data \in {"ok", "bad_image"})
              => /\ last.kind = "return"
                 /\ last.result = TRUE
                 /\ last.error = ""
                 /\ \A k \in 1..Len(log) :
                       /\ log[k].kind # "raise"
                       /\ log[k].kind = "emit" =>
                             /\ log[k].to \subseteq {last.payload.sid}
                             /\ log[1].data = "ok"
                             /\ last.payload.sid # ""

(* An image was generated for s1, which was registered no more; s2 was:    *)
(* the emit reached nobody and the job returned its result                 *)
C15_Witness ==
    \E jid \in 1..Len(job_log) :
        /\ Len(job_log[jid]) = 3
        /\ IsImageEmit(job_log[jid][2])
        /\ job_log[jid][2].room = "s1"
        /\ job_log[jid][2].to = {}
        /\ "s2" \in job_log[jid][2].reg
        /\ job_log[jid][3].result = TRUE

----------------------------------------------------------------------------
(* C16: a broadcast whose direct push was made is not reported as failed:  *)
(* the call of the REST handler that made the emit of broadcast_message or *)
(* broadcast_system_message answers 200, whether the publish that follows  *)
(* the emit succeeds or raises.                                            *)
C16_PublishFailureNotRaised ==
    \A c \in 1..Len(call_log) : \A k \in 1..Len(call_log[c]) :
        LET log == call_log[c]
            last == log[Len(log)]
        IN  (/\ log[k].kind = "emit"
             /\ log[k].fn \in {"broadcast_message", "broadcast_system_message"})
              => /\ last.kind = "response"
                 /\ last.status = 200

----------------------------------------------------------------------------
(* C17: a broadcast that fails (its emit or its publish raises) is raised  *)
(* to its caller and goes no further than the handler: a REST handler      *)
(* answers 500; process_incoming_message returns (None, 'Internal server   *)
(* error') and enqueues nothing; the Socket.IO 'message' handler turns     *)
(* every error process_incoming_message returns into an 'error' event      *)
(* emitted to the sending session alone, and ends there.                   *)
IsAnyBroadcastStart(e) ==
    /\ e.kind = "call"
    /\ e.what = "start"
    /\ e.fn \in {"broadcast_message", "broadcast_system_message"}

C17_Failed(log, k) ==
    ~(/\ k + 2 <= Len(log)
      /\ log[k + 1].kind = "emit"
      /\ log[k + 2].kind = "publish")

C17_BroadcastFailureContained ==
    \A c \in 1..Len(call_log) : \A k \in 1..Len(call_log[c]) :
        LET log == call_log[c]
            last == log[Len(log)]
        IN  /\ (IsAnyBroadcastStart(log[k]) /\ C17_Failed(log, k)) =>
                  IF k = 1
                  THEN last.kind = "raise"
                  ELSE IF log[1].fn \in {"send_message", "api_broadcast_message"}
                  THEN /\ last.kind = "response"
                       /\ last.status = 500
                       /\ last.error = InternalError
                       /\ \A m \in 1..Len(log) : log[m].kind # "raise"
                  ELSE /\ last.kind \in {"return", "emit"}
                       /\ \E m \in k..Len(log) :
                             /\ log[m].kind = "return"
                             /\ log[m].result = FALSE
                             /\ log[m].error = InternalError
                       /\ \A m \in 1..Len(log) :
                             log[m].kind \notin {"raise", "enqueue"}
            /\ (/\ log[1].fn = "handle_message"
                /\ log[k].kind = "return"
                /\ log[k].error # "") =>
                  /\ k + 1 = Len(log)
                  /\ last.kind = "emit"
                  /\ last.event = "error"
                  /\ last.room = log[2].data
                  /\ last.to \subseteq {log[2].data}
                  /\ last.info = log[k].error

(* POST /api/message was answered 500: the emit had been made to s1 and s2 *)
(* and the publish raised                                                  *)
C17_Witness ==
    \E c \in 1..Len(call_log) :
        /\ Len(call_log[c]) = 4
        /\ call_log[c][1].fn = "send_message"
        /\ IsAnyBroadcastStart(call_log[c][2])
        /\ call_log[c][3].kind = "emit"
        /\ call_log[c][3].to = {"s1", "s2"}
        /\ call_log[c][4].kind = "response"
        /\ call_log[c][4].status = 500

----------------------------------------------------------------------------
(* C18: on every raw input a REST handler passes to it, validate_message   *)
(* returns (ok, reason) and does not raise: not ok with a reason for an    *)
(* input that is no object; not ok with 'Content is required' for an       *)
(* object with no or empty content; not ok with 'Invalid message type' for *)
(* a type outside {text, image, audio}; ok for every other object.         *)
C18_ValidatorTotal ==
    \A c \in 1..Len(call_log) :
        LET data == call_log[c][1].input
            v == validate_message(data)
            content == Get(data.d, "content", <<>>)
            type == Get(data.d, "type", "text")
        IN  (/\ call_log[c][1].kind = "input"
             /\ call_log[c][1].fn \in {"send_message", "api_broadcast_message"})
              => /\ ~v.raised
                 /\ data.kind # "dict" => (~v.ok /\ v.reason # "")
                 /\ (data.kind = "dict" /\ content = <<>>)
                       => (~v.ok /\ v.reason = "Content is required")
                 /\ (data.kind = "dict" /\ content # <<>>
                        /\ type \notin {"text", "image", "audio"})
                       => (~v.ok /\ v.reason = "Invalid message type")
                 /\ (data.kind = "dict" /\ content # <<>>
                        /\ type \in {"text", "image", "audio"})
                       => (v.ok /\ v.reason = "")

----------------------------------------------------------------------------
(* C19: every message an ingress path emits as 'message' or 'broadcast',   *)
(* or publishes to a topic, has a type in {text, image, audio} and a       *)
(* content that is not empty.                                              *)
C19_BroadcastMessagesValid ==
    \A k \in 1..Len(CallEntries) :
        LET e == CallEntries[k]
        IN  (\/ e.kind = "publish"
             \/ e.kind = "emit" /\ e.event \in {"message", "broadcast"})
              => /\ e.msg.type \in {"text", "image", "audio"}
                 /\ e.msg.content # <<>>

----------------------------------------------------------------------------
(* C20: any two messages created in the process have ids that differ, also *)
(* when both are created in the same millisecond; every id is made of the  *)
(* random part and of the time.                                            *)
C20_IdsDistinct ==
    /\ \A i \in 1..Len(created) : \A k \in 1..Len(created) :
          i # k => created[i].id # created[k].id
    /\ \A i \in 1..Len(created) :
          /\ created[i].id[2] = created[i].uuid.head
          /\ created[i].id[4] = created[i].ms

----------------------------------------------------------------------------
(* C21: the file whisper_audio_async decodes the audio into lives no       *)
(* longer than the run that made it: when no transcription is running, no  *)
(* such file is left, whether the runs ended in a transcription, in a      *)
(* decode error or in a transcription error.                               *)
C21_TempFileCleanedUp ==
    running = {} => ~temp_wav.exists

----------------------------------------------------------------------------
(* C22: a call of the Socket.IO 'message' handler that rejects its input   *)
(* (no dict, a validation failure or an internal error) emits exactly one  *)
(* event, 'error', received by the sending session and by no other; it     *)
(* publishes nothing, enqueues nothing and leaves the Session Registry,    *)
(* the sessions and the queue as they were.                                *)
C22_IsRejection(log) ==
    /\ log[1].fn = "handle_message"
    /\ \/ log[1].input.kind # "dict"
       \/ \E k \in 1..Len(log) : log[k].kind = "return" /\ log[k].result = FALSE

C22_OneErrorToSender(log) ==
    /\ Count(log, LAMBDA e : e.kind = "emit") = 1
    /\ \A k \in 1..Len(log) :
          /\ log[k].kind \notin {"publish", "enqueue", "ws_send", "raise"}
          /\ log[k].kind = "emit" =>
                /\ log[k].event = "error"
                /\ log[k].to = {log[2].data}
                /\ log[k].info # ""
                /\ k = Len(log)

C22_RejectionFrame ==
    [][(/\ n_calls' = n_calls + 1
        /\ C22_IsRejection(call_log'[Len(call_log')]))
         => /\ C22_OneErrorToSender(call_log'[Len(call_log')])
            /\ active_connections' = active_connections
            /\ sio_sessions' = sio_sessions
            /\ raw_ws_connections' = raw_ws_connections
            /\ queue' = queue
            /\ job_log' = job_log]_vars

(* s1 sent a value that is no object while s2 was connected: one 'error'   *)
(* went to s1                                                              *)
C22_Witness ==
    \E c \in 1..Len(call_log) :
        /\ call_log[c][1].fn = "handle_message"
        /\ call_log[c][1].input = NonObject
        /\ call_log[c][Len(call_log[c])].kind = "emit"
        /\ call_log[c][Len(call_log[c])].to = {"s1"}
        /\ "s2" \in call_log[c][Len(call_log[c])].reg
        /\ "s2" \in sio_sessions

----------------------------------------------------------------------------
(* C23: for every Socket.IO session that connected, 'connected' was        *)
(* emitted exactly once, to that session alone; when it was emitted the    *)
(* session was in the registry already, and its 'connections' field is the *)
(* size of the registry with the session in it, at least 1.                *)
C23_ConnectedAfterAdd ==
    /\ \A sid \in Sids :
          Cardinality({e \in conn_log : e.info = sid})
            = IF sid \in used_ids THEN 1 ELSE 0
    /\ \A e \in conn_log :
          /\ e.event = "connected"
          /\ e.info \in Sids
          /\ e.room = e.info
          /\ e.to = {e.info}
          /\ e.info \in e.reg
          /\ e.n = Cardinality(e.reg)
          /\ e.n >= 1

(* s2 connected when s1 and r1 were registered: it was told 3 connections *)
C23_Witness ==
    \E e \in conn_log :
        /\ e.info = "s2"
        /\ e.to = {"s2"}
        /\ e.reg = {"s1", "s2", "r1"}
        /\ e.n = 3

----------------------------------------------------------------------------
(* C24: every run of generate_image_async reaches the upstream call, and   *)
(* the prompt it sends is the 'text' member when the content is a JSON     *)
(* object that has one, and the content as it is otherwise: content that   *)
(* is no JSON, an object without 'text', and JSON that is no object (a     *)
(* number, a list, a quoted string, null).                                 *)
C24_HasText(content) ==
    /\ json_loads(content).ok
    /\ json_loads(content).kind = "object"
    /\ "text" \in DOMAIN json_loads(content).obj

C24_PromptOrFallback ==
    \A jid \in 1..Len(job_log) :
        LET log == job_log[jid]
        IN  (log # <<>> /\ log[1].fn = "generate_image_async")
              => /\ log[1].kind = "call"
                 /\ log[1].what = "requests.post"
                 /\ log[1].positive =
                       IF C24_HasText(log[Len(log)].payload.content)
                       THEN json_loads(log[Len(log)].payload.content).obj["text"]
                       ELSE log[Len(log)].payload.content

----------------------------------------------------------------------------
(* C25: on the ingress paths that validate, the Socket.IO 'message'        *)
(* handler (through process_incoming_message) and POST /api/message, the   *)
(* input is normalised before it is validated: an object that is valid     *)
(* once its 'text' has been copied to 'content' is not answered with a     *)
(* validation error.                                                       *)
C25_ValidOnceNormalized(data) ==
    /\ data.kind = "dict"
    /\ ~normalize_message_data(data).raised
    /\ validate_message(normalize_message_data(data).data).ok

C25_NormalizedBeforeValidated ==
    \A c \in 1..Len(call_log) :
        LET log == call_log[c]
        IN  (/\ log[1].kind = "input"
             /\ log[1].fn \in {"handle_message", "send_message"}
             /\ C25_ValidOnceNormalized(log[1].input))
              => \A k \in 1..Len(log) :
                    /\ ~(log[k].kind = "response" /\ log[k].status = 400)
                    /\ ~(log[k].kind = "return" /\ log[k].error \in C5_Reasons)

----------------------------------------------------------------------------
(* C26: under every interleaving of the runs of two transcription jobs,    *)
(* what a job transcribes is the audio of its own message.                 *)
C26_OwnAudio(jid) ==
    CHOOSE p \in AudioPayloads : p.id = jid

C26_TranscribesOwnAudio ==
    \A jid \in 1..Len(job_log) :
        \A k \in 1..Len(job_log[jid]) :
            job_log[jid][k].kind = "transcribed"
              => job_log[jid][k].segments
                   = transcribe(b64decode(C26_OwnAudio(jid).content).bytes).segments

----------------------------------------------------------------------------
(* C27: for every message accepted so far, the runs of all jobs together   *)
(* emitted at most one 'image' event that carries its id, whether the      *)
(* message was text or audio transcribed into text.                        *)
C27_ImageEvents(m) ==
    Count(JobEntries, LAMBDA e : IsImageEmit(e) /\ e.msg.id = m)

C27_AtMostOneImage ==
    /\ \A m \in 1..next_msg : C27_ImageEvents(m) <= 1
    /\ \A k \in 1..Len(JobEntries) :
          IsImageEmit(JobEntries[k]) => JobEntries[k].msg.id \in 1..next_msg

(* An audio message went the whole chain: dispatched, transcribed, and its *)
(* one 'image' event emitted; no job is left.                              *)
C27_Witness ==
    /\ queue = {}
    /\ running = {}
    /\ C27_ImageEvents(1) = 1
    /\ \E jid \in 1..Len(job_log) :
          /\ job_log[jid] # <<>>
          /\ job_log[jid][1].fn = "whisper_audio_async"
          /\ job_log[jid][Len(job_log[jid])].kind = "return"
          /\ job_log[jid][Len(job_log[jid])].result

----------------------------------------------------------------------------
(* C28: the registry holds the ids of the connections that are open and no *)
(* others; a raw WebSocket connection whose handler has ended, because the *)
(* client closed, a send failed or the processing raised, is no longer in  *)
(* it, and the last registry call made on its id was the remove.           *)
C28_RegistryOnlyOpen ==
    /\ active_connections = sio_sessions \cup raw_ws_connections
    /\ \A r \in RawIds :
          (r \in used_ids /\ r \notin raw_ws_connections)
            => /\ ~is_connected(active_connections, r)
               /\ last_op[r] = "remove"

(* r1's handler ended on a message it could not process and an error reply *)
(* it could not send; s1 is still connected and is all the registry holds. *)
C28_Witness ==
    /\ "r1" \in used_ids
    /\ "r1" \notin raw_ws_connections
    /\ active_connections = {"s1"}
    /\ \E c \in 1..Len(call_log) :
          /\ call_log[c][1].fn = "handle_raw_websocket"
          /\ call_log[c][1].input = NonObject
          /\ Len(call_log[c]) = 1

----------------------------------------------------------------------------
(* C29: a run of generate_image_async or whisper_audio_async that is over  *)
(* ended by returning a pair (result, error) of which exactly one is       *)
(* there: a result and no error, or an error and no result.  It did not    *)
(* end by raising.                                                         *)
C29_ExactlyOneOfResultAndError ==
    \A jid \in 1..Len(job_log) :
        LET log == job_log[jid]
        IN  (/\ log # <<>>
             /\ log[Len(log)].fn \in {"generate_image_async", "whisper_audio_async"}
             /\ log[Len(log)].kind \in {"return", "raise"})
              => /\ log[Len(log)].kind = "return"
                 /\ log[Len(log)].result <=> log[Len(log)].error = ""

----------------------------------------------------------------------------
(* C30: a call of POST /api/message or a message on a raw WebSocket        *)
(* enqueues nothing: it makes no enqueue call and leaves the queue, the    *)
(* job counter and the jobs' history as they were; when it is served to    *)
(* the end (200, or 'message_received' sent back) its message went out on  *)
(* both channels, the Socket.IO emit to every session and then the publish *)
(* on 'messages'.  An ingress call that enqueues a job is a Socket.IO      *)
(* 'message'.                                                              *)
C30_Served(log) ==
    \/ log[Len(log)].kind = "response" /\ log[Len(log)].status = 200
    \/ log[Len(log)].kind = "ws_send" /\ log[Len(log)].what = "message_received"

C30_BothChannels(log, id) ==
    \E i \in 1..Len(log), j \in 1..Len(log) :
        /\ i < j
        /\ log[i].kind = "emit"
        /\ log[i].event = "message"
        /\ log[i].to = sio_sessions
        /\ log[i].msg.id = id
        /\ log[j].kind = "publish"
        /\ log[j].topic = "messages"
        /\ log[j].msg = log[i].msg

C30_NoJobFromRestOrRaw ==
    [][n_calls' = n_calls + 1
         => /\ call_log'[Len(call_log')][1].fn \in {"send_message", "handle_raw_websocket"}
               => /\ queue' = queue
                  /\ next_job' = next_job
                  /\ job_log' = job_log
                  /\ \A k \in 1..Len(call_log'[Len(call_log')]) :
                        call_log'[Len(call_log')][k].kind # "enqueue"
                  /\ C30_Served(call_log'[Len(call_log')])
                        => C30_BothChannels(call_log'[Len(call_log')], next_msg')
            /\ next_job' # next_job
                  => call_log'[Len(call_log')][1].fn = "handle_message"]_vars

(* A REST message and nothing else: both sessions got it, it was published *)
(* and answered 200; no job was ever enqueued.                             *)
C30_Witness ==
    /\ n_calls = 1
    /\ call_log[1][1].fn = "send_message"
    /\ C30_Served(call_log[1])
    /\ C30_BothChannels(call_log[1], 1)
    /\ sio_sessions = {"s1", "s2"}
    /\ queue = {}
    /\ next_job = 0

====
